---- MODULE Spec2Model ----
(***************************************************************************)
(* State-machine model of scripts/smilebus_data_populate.py: the schema    *)
(* initializer, the fetch worker pool, the ingestion coordinator, the      *)
(* normalizer/writer and the two main blocks that drive them.              *)
(*                                                                         *)
(* The identifier range and the pool width are scaled down (NumIds,        *)
(* max_workers); the upstream is a fixed table of responses, one per       *)
(* identifier, chosen in Init and kept for the whole execution.            *)
(***************************************************************************)
EXTENDS Integers, Sequences, FiniteSets, Bags, TLC

\* ------------------------------------------------------------------ bounds
\* range(1, 1001) scaled down: the identifiers are 1..NumIds
NumIds == 3
\* ThreadPoolExecutor(max_workers=10) scaled down
max_workers == 2

Ids == 1..NumIds

\* SQL NULL / JSON null / Python None
NULL == "NULL"

\* --------------------------------------------------------------- upstream
\* Stop and city records as the upstream API returns them.
Central == [id |-> 100, title |-> "Central", gps |-> "56.9,24.1",
            photo_url |-> NULL, order |-> 1, is_default |-> 1]
Centralny == [id |-> 100, title |-> "Centralny", gps |-> "53.9,27.5",
              photo_url |-> NULL, order |-> 2, is_default |-> 0]
Untitled == [id |-> 200, title |-> NULL, gps |-> NULL,
             photo_url |-> NULL, order |-> 1, is_default |-> 0]

Riga == [id_city |-> 9, city_name |-> "Riga", city_slug |-> "riga",
         is_waypoint |-> 0, is_top |-> 1, stops |-> <<Central>>]
Ryga == [id_city |-> 9, city_name |-> "Ryga", city_slug |-> "ryga",
         is_waypoint |-> 1, is_top |-> 0, stops |-> <<>>]
Minsk == [id_city |-> 1, city_name |-> "Minsk", city_slug |-> "minsk",
          is_waypoint |-> 0, is_top |-> 1, stops |-> <<Centralny>>]
Vilnius == [id_city |-> 2, city_name |-> "Vilnius", city_slug |-> "vilnius",
            is_waypoint |-> 0, is_top |-> 0, stops |-> <<Untitled>>]

\* The responses the upstream can give to one request.  transport is what
\* requests.get does ("ok" or a raised requests exception), status the HTTP
\* status, body the decoded JSON.
Upstream(name) ==
    CASE name = "timeout"  -> [transport |-> "Timeout", status |-> 0,
                               body |-> [result |-> "none", data |-> <<>>]]
      [] name = "http500"  -> [transport |-> "ok", status |-> 500,
                               body |-> [result |-> "success", data |-> <<Riga>>]]
      [] name = "http300"  -> [transport |-> "ok", status |-> 300,
                               body |-> [result |-> "success", data |-> <<Riga>>]]
      [] name = "empty"    -> [transport |-> "ok", status |-> 200,
                               body |-> [result |-> "success", data |-> <<>>]]
      [] name = "noresult" -> [transport |-> "ok", status |-> 200,
                               body |-> [data |-> <<Riga>>]]
      [] name = "riga"     -> [transport |-> "ok", status |-> 200,
                               body |-> [result |-> "success", data |-> <<Riga>>]]
      [] name = "minsk"    -> [transport |-> "ok", status |-> 200,
                               body |-> [result |-> "success", data |-> <<Ryga, Minsk>>]]
      [] name = "broken"   -> [transport |-> "ok", status |-> 200,
                               body |-> [result |-> "success", data |-> <<Riga, Vilnius>>]]

TransportFailures == {"timeout", "http500"}
ValidData == {"riga", "minsk"}
ResponseNames ==
    {"timeout", "http500", "http300", "empty", "noresult", "riga", "minsk", "broken"}

\* The responses Spec draws from.  A timeout and an error status end in the
\* same except clause with the same outcome; Spec draws the error status,
\* whose body carries data, and LiveSpec the timeout.
Responses == ResponseNames \ {"timeout", "http300"}

\* ------------------------------------------------------------------ state
VARIABLES
    resp,       \* the upstream: identifier -> response name (fixed)
    pc,         \* position of the main thread
    block,      \* which of the two __main__ blocks is executing (1, 2)
    db,         \* the store on disk: schema and committed rows
    conn,       \* populate_database's connection: "closed" or "open"
    txn,        \* the rows as populate_database's connection sees them
    threads,    \* worker threads of the executor
    task,       \* identifier -> state of its fetch task / future
    yielded,    \* identifier -> number of times as_completed yielded its future
    cur,        \* the identifier whose outcome the loop body is handling (0: none)
    wpc,        \* identifier -> next statement of process_city_data (0: not running)
    log,        \* the records written to the log file
    dispatched, \* block -> identifier -> number of executor.submit calls for it
    aborted,    \* block -> the block ended in its except clause
    afterRun,   \* block -> rows on disk when populate_database returned
    route_summary \* the list in route_summary.json (empty before the first export)

vars == <<resp, pc, block, db, conn, txn, threads, task, yielded, cur, wpc,
          log, dispatched, aborted, afterRun, route_summary>>

\* ------------------------------------------------------------ fetch worker
\* fetch_city_data without response.raise_for_status(): the body of an error
\* response is decoded like any other
fetch_city_data_any_status(city_id, r) ==
    IF r.transport # "ok"
    THEN [kind |-> "none", city_id |-> city_id, data |-> <<>>, logged |-> TRUE]
    ELSE IF "result" \notin DOMAIN r.body
    THEN [kind |-> "raise", city_id |-> city_id, data |-> <<>>, logged |-> FALSE]
    ELSE IF r.body.result # "success"
    THEN [kind |-> "none", city_id |-> city_id, data |-> <<>>, logged |-> FALSE]
    ELSE IF "data" \notin DOMAIN r.body
    THEN [kind |-> "raise", city_id |-> city_id, data |-> <<>>, logged |-> FALSE]
    ELSE IF r.body.data # <<>>
    THEN [kind |-> "data", city_id |-> city_id, data |-> r.body.data, logged |-> FALSE]
    ELSE [kind |-> "none", city_id |-> city_id, data |-> <<>>, logged |-> FALSE]

\* fetch_city_data: the outcome of one fetch task.  kind is "data" (a dict is
\* returned), "none" (None is returned) or "raise" (an exception other than
\* requests.RequestException leaves the function); logged tells whether the
\* except clause wrote its error record.
fetch_city_data(city_id, r) ==
    IF r.transport # "ok"
    THEN [kind |-> "none", city_id |-> city_id, data |-> <<>>, logged |-> TRUE]
    ELSE IF r.status >= 400 /\ r.status < 600
    THEN [kind |-> "none", city_id |-> city_id, data |-> <<>>, logged |-> TRUE]
    ELSE IF "result" \notin DOMAIN r.body
    THEN [kind |-> "raise", city_id |-> city_id, data |-> <<>>, logged |-> FALSE]
    ELSE IF r.body.result # "success"
    THEN [kind |-> "none", city_id |-> city_id, data |-> <<>>, logged |-> FALSE]
    ELSE IF "data" \notin DOMAIN r.body
    THEN [kind |-> "raise", city_id |-> city_id, data |-> <<>>, logged |-> FALSE]
    ELSE IF r.body.data # <<>>
    THEN [kind |-> "data", city_id |-> city_id, data |-> r.body.data, logged |-> FALSE]
    ELSE [kind |-> "none", city_id |-> city_id, data |-> <<>>, logged |-> FALSE]

\* ------------------------------------------------------- normalizer/writer
\* bool(x) of a JSON number
ToBool(v) == v # 0

CityKeys == {"id_city", "city_name", "city_slug", "is_waypoint", "is_top"}
StopKeys == {"id", "title", "gps", "photo_url", "order", "is_default"}

KeyError == [op |-> "raise", row |-> [error |-> "KeyError"]]

CityRow(city) ==
    [id |-> city.id_city, name |-> city.city_name, slug |-> city.city_slug,
     is_waypoint |-> ToBool(city.is_waypoint), is_top |-> ToBool(city.is_top)]

StopRow(city, stop) ==
    [id |-> stop.id, city_id |-> city.id_city, title |-> stop.title, gps |-> stop.gps,
     photo_url |-> stop.photo_url, order_num |-> stop.order,
     is_default |-> ToBool(stop.is_default)]

\* a route row whose destination city is the origin
RouteRowToOrigin(from_id, city, stop) ==
    [from_city_id |-> from_id, to_city_id |-> from_id,
     from_stop_id |-> NULL, to_stop_id |-> stop.id]

RouteRow(from_id, city, stop) ==
    [from_city_id |-> from_id, to_city_id |-> city.id_city,
     from_stop_id |-> NULL, to_stop_id |-> stop.id]

\* the statements of the first inner loop (lines 97-102), in order
StopStmts(city) ==
    [k \in 1..Len(city.stops) |->
        IF StopKeys \subseteq DOMAIN city.stops[k]
        THEN [op |-> "upsert_stop", row |-> StopRow(city, city.stops[k])]
        ELSE KeyError]

\* the statements of the second inner loop (lines 105-109), in order
RouteStmts(from_id, city) ==
    [k \in 1..Len(city.stops) |->
        IF "id" \in DOMAIN city.stops[k]
        THEN [op |-> "insert_route", row |-> RouteRow(from_id, city, city.stops[k])]
        ELSE KeyError]

\* the statements of one iteration of the outer loop (lines 90-109)
CityStmts(from_id, city) ==
    IF ~(CityKeys \subseteq DOMAIN city)
    THEN <<KeyError>>
    ELSE <<[op |-> "upsert_city", row |-> CityRow(city)]>> \o
         (IF "stops" \in DOMAIN city
          THEN StopStmts(city) \o RouteStmts(from_id, city)
          ELSE <<KeyError>>)

\* the statements of the whole outer loop: iteration k's follow iteration k-1's
AllStmts(from_id, data) ==
    LET upto[k \in 0..Len(data)] ==
            IF k = 0 THEN <<>> ELSE upto[k - 1] \o CityStmts(from_id, data[k])
    IN upto[Len(data)]

\* the prefix of a statement list up to and including its first raise
UpToRaise(stmts) ==
    LET raises == {k \in 1..Len(stmts) : stmts[k].op = "raise"}
    IN IF raises = {} THEN stmts
       ELSE SubSeq(stmts, 1, CHOOSE k \in raises : \A m \in raises : k <= m)

\* process_city_data as the list of statements it issues for one outcome
process_city_data(city_data) == UpToRaise(AllStmts(city_data.city_id, city_data.data))

\* ------------------------------------------------------------------ store
EmptyTables == [cities |-> {}, stops |-> {}, routes |-> EmptyBag]

SchemaObjects == {"cities", "stops", "routes",
                  "idx_cities_slug", "idx_stops_city_id", "idx_routes_from_to"}

\* PRAGMA foreign_keys is set on create_database's connection only; the
\* connection populate_database opens runs with SQLite's default.
foreign_keys == FALSE

\* the routes table declares no UNIQUE constraint besides its AUTOINCREMENT id
routes_unique_key == FALSE

CityIds(t) == {c.id : c \in t.cities}
StopIds(t) == {s.id : s \in t.stops}

\* INSERT OR IGNORE INTO cities: a row whose id is taken is left as it is
UpsertCityKeepFirst(t, row) ==
    IF row.name = NULL
    THEN [ok |-> FALSE, tables |-> t]
    ELSE [ok |-> TRUE,
          tables |-> IF row.id \in {c.id : c \in t.cities}
                     THEN t
                     ELSE [t EXCEPT !.cities = @ \cup {row}]]

\* INSERT OR REPLACE INTO cities: [ok, tables]
UpsertCity(t, row) ==
    IF row.name = NULL
    THEN [ok |-> FALSE, tables |-> t]
    ELSE [ok |-> TRUE,
          tables |-> [t EXCEPT !.cities = {c \in t.cities : c.id # row.id} \cup {row}]]

\* INSERT OR REPLACE INTO stops
UpsertStop(t, row) ==
    IF row.title = NULL \/ (foreign_keys /\ row.city_id \notin CityIds(t))
    THEN [ok |-> FALSE, tables |-> t]
    ELSE [ok |-> TRUE,
          tables |-> [t EXCEPT !.stops = {s \in t.stops : s.id # row.id} \cup {row}]]

\* INSERT OR IGNORE INTO routes
InsertRoute(t, row) ==
    IF foreign_keys /\ (row.from_city_id \notin CityIds(t) \/ row.to_city_id \notin CityIds(t)
                        \/ row.to_stop_id \notin StopIds(t))
    THEN [ok |-> FALSE, tables |-> t]
    ELSE IF routes_unique_key /\ BagIn(row, t.routes)
    THEN [ok |-> TRUE, tables |-> t]
    ELSE [ok |-> TRUE, tables |-> [t EXCEPT !.routes = t.routes (+) SetToBag({row})]]

\* c.execute of one statement
Execute(t, stmt) ==
    CASE stmt.op = "upsert_city"  -> UpsertCity(t, stmt.row)
      [] stmt.op = "upsert_stop"  -> UpsertStop(t, stmt.row)
      [] stmt.op = "insert_route" -> InsertRoute(t, stmt.row)


\* ----------------------------------------------------------------- helpers
Blocks == 1..2

LogRecord(level, event, city_id) ==
    [run |-> block, level |-> level, event |-> event, city_id |-> city_id]

\* what the fetch task of identifier i returns for each response, and the
\* statements process_city_data issues for it, tabulated once
Fetched == [i \in Ids |-> [n \in ResponseNames |-> fetch_city_data(i, Upstream(n))]]
Statements ==
    [i \in Ids |-> [n \in ResponseNames |->
        IF Fetched[i][n].kind = "data" THEN process_city_data(Fetched[i][n]) ELSE <<>>]]

Outcome(i) == Fetched[i][resp[i]]

Running == {i \in Ids : task[i] = "running"}

FreshPool == [i \in Ids |-> "new"]
NoneYielded == [i \in Ids |-> 0]
NotWriting == [i \in Ids |-> 0]

\* an executor that starts a thread for every submitted task
adjust_thread_count_unbounded(n) == n + 1

\* ThreadPoolExecutor.submit starts a worker thread while fewer than
\* max_workers exist
adjust_thread_count(n) == IF n < max_workers THEN n + 1 ELSE n

\* completions handled as they happen, even inside the loop body
CollectingAnytime == pc \in {"collect", "process"}

\* the for loop over as_completed takes the next future only between two
\* iterations of its body
Collecting == pc = "collect"

\* ------------------------------------------------------------------- Init
InitWith(names) ==
    /\ resp \in [Ids -> names]
    /\ pc = "create"
    /\ block = 1
    /\ db = [schema |-> {}, tables |-> EmptyTables]
    /\ conn = "closed"
    /\ txn = EmptyTables
    /\ threads = 0
    /\ task = FreshPool
    /\ yielded = NoneYielded
    /\ cur = 0
    /\ wpc = NotWriting
    /\ log = {}
    /\ dispatched = [b \in Blocks |-> [i \in Ids |-> 0]]
    /\ aborted = [b \in Blocks |-> FALSE]
    /\ afterRun = [b \in Blocks |-> [done |-> FALSE, committed |-> FALSE,
                                     tables |-> EmptyTables]]
    /\ route_summary = <<>>

Init == InitWith(Responses)

\* ------------------------------------------------------------- main blocks
\* an except clause around the failing call alone: log and carry on with the
\* next call of the block
MainExceptResume ==
    /\ log' = log \cup {LogRecord("CRITICAL", "critical", 0)}
    /\ aborted' = [aborted EXCEPT ![block] = TRUE]
    /\ pc' = "connect"
    /\ block' = block

\* the except clause of a __main__ block: log, then fall through to whatever
\* follows the block in the file
MainExcept ==
    /\ log' = log \cup {LogRecord("CRITICAL", "critical", 0)}
    /\ aborted' = [aborted EXCEPT ![block] = TRUE]
    /\ pc' = IF block = 1 THEN "create" ELSE "done"
    /\ block' = 2

\* a create_database that drops the tables before it creates them
CreateDatabaseRecreate ==
    /\ pc = "create"
    /\ db' = [schema |-> SchemaObjects, tables |-> EmptyTables]
    /\ pc' = "connect"
    /\ UNCHANGED <<route_summary, resp, block, conn, txn, threads, task, yielded, cur, wpc, log,
                   dispatched, aborted, afterRun>>

\* create_database(), lines 11-58
CreateDatabaseOk ==
    /\ pc = "create"
    /\ db' = [db EXCEPT !.schema = @ \cup SchemaObjects]
    /\ pc' = "connect"
    /\ UNCHANGED <<route_summary, resp, block, conn, txn, threads, task, yielded, cur, wpc, log,
                   dispatched, aborted, afterRun>>

\* create_database() raising (the store cannot be opened, the script fails)
CreateDatabaseFail ==
    /\ pc = "create"
    /\ MainExcept
    /\ UNCHANGED <<route_summary, resp, db, conn, txn, threads, task, yielded, cur, wpc, dispatched,
                   afterRun>>

\* populate_database(), lines 116-120: connection, pragma, executor
PopulateConnectOk ==
    /\ pc = "connect"
    /\ conn' = "open"
    /\ txn' = db.tables
    /\ threads' = 0
    /\ task' = FreshPool
    /\ yielded' = NoneYielded
    /\ cur' = 0
    /\ wpc' = NotWriting
    /\ pc' = "submit"
    /\ UNCHANGED <<route_summary, resp, block, db, log, dispatched, aborted, afterRun>>

\* sqlite3.connect or the pragma raising: outside the try, so the exception
\* reaches the __main__ block
PopulateConnectFail ==
    /\ pc = "connect"
    /\ MainExcept
    /\ UNCHANGED <<route_summary, resp, db, conn, txn, threads, task, yielded, cur, wpc, dispatched,
                   afterRun>>

\* ------------------------------------------------------------ worker pool
\* one executor.submit of the dict comprehension, line 121
Submit ==
    /\ pc = "submit"
    /\ \E i \in Ids :
        /\ task[i] = "new"
        /\ \A j \in Ids : j < i => task[j] # "new"
        /\ task' = [task EXCEPT ![i] = "queued"]
        /\ threads' = adjust_thread_count(threads)
        /\ dispatched' = [dispatched EXCEPT ![block][i] = @ + 1]
        /\ pc' = IF i = NumIds THEN "collect" ELSE "submit"
    /\ UNCHANGED <<route_summary, resp, block, db, conn, txn, yielded, cur, wpc, log, aborted, afterRun>>

\* a worker thread takes the oldest queued work item
Start(i) ==
    /\ task[i] = "queued"
    /\ \A j \in Ids : j < i => task[j] # "queued"
    /\ Cardinality(Running) < threads
    /\ task' = [task EXCEPT ![i] = "running"]
    /\ UNCHANGED <<route_summary, resp, pc, block, db, conn, txn, threads, yielded, cur, wpc, log,
                   dispatched, aborted, afterRun>>

\* fetch_city_data returns or raises in its worker thread, lines 70-79
Finish(i) ==
    /\ task[i] = "running"
    /\ task' = [task EXCEPT ![i] = "done"]
    /\ log' = IF Outcome(i).logged
              THEN log \cup {LogRecord("ERROR", "fetch_error", i)}
              ELSE log
    /\ UNCHANGED <<route_summary, resp, pc, block, db, conn, txn, threads, yielded, cur, wpc,
                   dispatched, aborted, afterRun>>

\* ------------------------------------------------------------ coordinator
\* as_completed yields a finished future not yielded before, lines 123-124
Yields(i) ==
    /\ Collecting
    /\ task[i] = "done"
    /\ yielded[i] = 0
    /\ yielded' = [yielded EXCEPT ![i] = @ + 1]

\* future.result() re-raising with no except clause inside the loop: the
\* exception leaves the loop and is handled at lines 136-140
YieldRaiseUncaught(i) ==
    /\ Yields(i)
    /\ Outcome(i).kind = "raise"
    /\ log' = log \cup {LogRecord("ERROR", "fatal", 0)}
    /\ conn' = "closed"
    /\ afterRun' = [afterRun EXCEPT ![block] =
                        [done |-> TRUE, committed |-> FALSE, tables |-> db.tables]]
    /\ pc' = "export"
    /\ UNCHANGED <<route_summary, resp, block, db, txn, threads, task, cur, wpc, dispatched, aborted>>

\* future.result() re-raises the task's exception, lines 126, 130-131
YieldRaise(i) ==
    /\ Yields(i)
    /\ Outcome(i).kind = "raise"
    /\ log' = log \cup {LogRecord("ERROR", "process_error", i)}
    /\ UNCHANGED <<route_summary, resp, pc, block, db, conn, txn, threads, task, cur, wpc, dispatched,
                   aborted, afterRun>>

\* future.result() is None, line 127
YieldNone(i) ==
    /\ Yields(i)
    /\ Outcome(i).kind = "none"
    /\ UNCHANGED <<route_summary, resp, pc, block, db, conn, txn, threads, task, cur, wpc, log,
                   dispatched, aborted, afterRun>>

\* future.result() is a dict: process_city_data is entered, line 128
YieldData(i) ==
    /\ Yields(i)
    /\ Outcome(i).kind = "data"
    /\ cur' = i
    /\ wpc' = [wpc EXCEPT ![i] = 1]
    /\ pc' = "process"
    /\ UNCHANGED <<route_summary, resp, block, db, conn, txn, threads, task, log, dispatched, aborted, afterRun>>

\* the statement process_city_data is about to execute for outcome i, and
\* what executing it on the connection gives
Statement(i) == Statements[i][resp[i]][wpc[i]]
IsLastStatement(i) == wpc[i] = Len(Statements[i][resp[i]])
Executed(i) ==
    IF Statement(i).op = "raise" THEN [ok |-> FALSE, tables |-> txn]
    ELSE Execute(txn, Statement(i))

\* process_city_data is running for outcome i in the coordinator
Writing(i) == pc = "process" /\ cur = i /\ wpc[i] > 0

\* a statement of process_city_data raises (lines 89-109); the coordinator
\* logs it and goes on with the next future (lines 130-131)
WriteRaise(i) ==
    /\ Writing(i)
    /\ ~Executed(i).ok
    /\ log' = log \cup {LogRecord("ERROR", "process_error", i)}
    /\ wpc' = [wpc EXCEPT ![i] = 0]
    /\ cur' = 0
    /\ pc' = "collect"
    /\ UNCHANGED <<route_summary, resp, block, db, conn, txn, threads, task, yielded,
                   dispatched, aborted, afterRun>>

\* a statement of process_city_data that is not its last succeeds
WriteNext(i) ==
    /\ Writing(i)
    /\ ~IsLastStatement(i)
    /\ Executed(i).ok
    /\ txn' = Executed(i).tables
    /\ wpc' = [wpc EXCEPT ![i] = @ + 1]
    /\ UNCHANGED <<route_summary, resp, pc, block, db, conn, threads, task, yielded, cur, log,
                   dispatched, aborted, afterRun>>

\* a process_city_data that commits at the end of each outcome
WriteLastCommit(i) ==
    /\ Writing(i)
    /\ IsLastStatement(i)
    /\ Executed(i).ok
    /\ txn' = Executed(i).tables
    /\ db' = [db EXCEPT !.tables = Executed(i).tables]
    /\ log' = log \cup {LogRecord("INFO", "processed", i)}
    /\ wpc' = [wpc EXCEPT ![i] = 0]
    /\ cur' = 0
    /\ pc' = "collect"
    /\ UNCHANGED <<route_summary, resp, block, conn, threads, task, yielded,
                   dispatched, aborted, afterRun>>

\* the last statement of process_city_data succeeds and the function
\* returns (line 129)
WriteLast(i) ==
    /\ Writing(i)
    /\ IsLastStatement(i)
    /\ Executed(i).ok
    /\ txn' = Executed(i).tables
    /\ log' = log \cup {LogRecord("INFO", "processed", i)}
    /\ wpc' = [wpc EXCEPT ![i] = 0]
    /\ cur' = 0
    /\ pc' = "collect"
    /\ UNCHANGED <<route_summary, resp, block, db, conn, threads, task, yielded,
                   dispatched, aborted, afterRun>>

\* as_completed is exhausted and the with block shuts the executor down
LoopExit ==
    /\ Collecting
    /\ \A i \in Ids : yielded[i] > 0
    /\ threads' = 0
    /\ pc' = "commit"
    /\ UNCHANGED <<route_summary, resp, block, db, conn, txn, task, yielded, cur, wpc, log,
                   dispatched, aborted, afterRun>>

\* conn.commit() succeeding, then the finally clause, lines 133-140
CommitOk ==
    /\ pc = "commit"
    /\ db' = [db EXCEPT !.tables = txn]
    /\ log' = log \cup {LogRecord("INFO", "completed", 0)}
    /\ conn' = "closed"
    /\ afterRun' = [afterRun EXCEPT ![block] =
                        [done |-> TRUE, committed |-> TRUE, tables |-> txn]]
    /\ pc' = "export"
    /\ UNCHANGED <<route_summary, resp, block, txn, threads, task, yielded, cur, wpc, dispatched, aborted>>

\* conn.commit() raising: caught at line 136, the connection is closed
\* without a commit
CommitFail ==
    /\ pc = "commit"
    /\ log' = log \cup {LogRecord("ERROR", "fatal", 0)}
    /\ conn' = "closed"
    /\ afterRun' = [afterRun EXCEPT ![block] =
                        [done |-> TRUE, committed |-> FALSE, tables |-> db.tables]]
    /\ pc' = "export"
    /\ UNCHANGED <<route_summary, resp, block, db, txn, threads, task, yielded, cur, wpc, dispatched, aborted>>

\* ------------------------------------------------------- read-only passes
\* The order of the TEXT values of the fixtures under SQLite's BINARY
\* collation, which ORDER BY uses (line 164); NULL sorts before every value.
Collation == <<NULL, "Any", "Central", "Centralny", "Minsk", "Riga", "Ryga", "Vilnius">>
Rank(text) == CHOOSE k \in 1..Len(Collation) : Collation[k] = text

\* the result rows the FROM clause gives for one routes row, lines 159-163:
\* inner joins on both cities and on the destination stop; from_stop_id is
\* NULL in every row the script writes (line 107), so the LEFT JOIN on stops
\* s1 finds no stop and s1.title is NULL
JoinRows(t, r) ==
    {[from_city |-> c1.name, to_city |-> c2.name, from_stop |-> NULL, to_stop |-> s2.title] :
        c1 \in {c \in t.cities : c.id = r.from_city_id},
        c2 \in {c \in t.cities : c.id = r.to_city_id},
        s2 \in {s \in t.stops : s.id = r.to_stop_id}}

\* the result set of the SELECT before ordering, as a bag
Selected(t) ==
    LET rows == UNION {JoinRows(t, r) : r \in BagToSet(t.routes)}
    IN  [j \in rows |->
            BagCardinality([r \in {x \in BagToSet(t.routes) : j \in JoinRows(t, x)} |->
                                t.routes[r]])]

\* ORDER BY c2.name, c1.name, s1.title, s2.title: the destination first
OrderKeyDestinationFirst(j) ==
    <<Rank(j.to_city), Rank(j.from_city), Rank(j.from_stop), Rank(j.to_stop)>>

\* ORDER BY c1.name, c2.name, s1.title, s2.title, line 164
OrderKey(j) == <<Rank(j.from_city), Rank(j.to_city), Rank(j.from_stop), Rank(j.to_stop)>>
Precedes(a, b) ==
    \E k \in 1..4 : a[k] < b[k] /\ \A m \in 1..(k - 1) : a[m] = b[m]


\* c.fetchall(): the selected rows in the order of the keys
OrderBy(sel) ==
    LET Before(j) == BagCardinality([x \in {y \in DOMAIN sel : Precedes(OrderKey(y), OrderKey(j))} |-> sel[x]])
    IN  [k \in 1..BagCardinality(sel) |->
            CHOOSE j \in DOMAIN sel : Before(j) < k /\ k <= Before(j) + sel[j]]

\* one dict of the list comprehension, lines 167-176 (the synthetic id of the
\* routes row is left out, as it is in the routes bag)
Summary(row) ==
    [row EXCEPT !.from_stop = IF @ \in {NULL, ""} THEN "Any" ELSE @]

\* the list json.dump writes, lines 152-179
RouteSummary(t) ==
    LET rows == OrderBy(Selected(t))
    IN  [k \in 1..Len(rows) |-> Summary(rows[k])]

\* export_route_summary(), lines 142-181; the first block ends after it
ExportRouteSummary ==
    /\ pc = "export"
    /\ route_summary' = RouteSummary(db.tables)
    /\ log' = log \cup {LogRecord("INFO", "exported", 0)}
    /\ pc' = IF block = 1 THEN "create" ELSE "analyze"
    /\ block' = 2
    /\ UNCHANGED <<resp, db, conn, txn, threads, task, yielded, cur, wpc, dispatched, aborted, afterRun>>

\* analyze_database(), lines 198-249
AnalyzeDatabase ==
    /\ pc = "analyze"
    /\ pc' = "optimize"
    /\ UNCHANGED <<route_summary, resp, block, db, conn, txn, threads, task, yielded, cur, wpc, log,
                   dispatched, aborted, afterRun>>

\* optimize_database(), lines 251-267
OptimizeDatabase ==
    /\ pc = "optimize"
    /\ log' = log \cup {LogRecord("INFO", "optimized", 0)}
    /\ pc' = "done"
    /\ UNCHANGED <<route_summary, resp, block, db, conn, txn, threads, task, yielded, cur, wpc,
                   dispatched, aborted, afterRun>>

\* ------------------------------------------------------------------- Next
Next ==
    \/ CreateDatabaseOk
    \/ CreateDatabaseFail
    \/ PopulateConnectOk
    \/ PopulateConnectFail
    \/ Submit
    \/ \E i \in Ids : Start(i)
    \/ \E i \in Ids : Finish(i)
    \/ \E i \in Ids : YieldRaise(i)
    \/ \E i \in Ids : YieldNone(i)
    \/ \E i \in Ids : YieldData(i)
    \/ \E i \in Ids : WriteRaise(i)
    \/ \E i \in Ids : WriteNext(i)
    \/ \E i \in Ids : WriteLast(i)
    \/ LoopExit
    \/ CommitOk
    \/ CommitFail
    \/ ExportRouteSummary
    \/ AnalyzeDatabase
    \/ OptimizeDatabase

Spec == Init /\ [][Next]_vars

\* The program does not halt while one of its threads can take a step: the
\* main thread keeps running, a worker thread takes queued work, and every
\* request ends (requests.get carries timeout=10).

\* one response of each kind of outcome: None, an exception out of the task,
\* data written to the end, data whose write raises
LiveResponses == {"timeout", "noresult", "riga", "broken"}

LiveInit == InitWith(LiveResponses)

LiveSpec == LiveInit /\ [][Next]_vars /\ WF_vars(Next)


\* The responses of the specification that exercises fetch_city_data on a
\* status outside both 2xx and 4xx-5xx, next to a failure, a malformed body
\* and a payload whose write raises.
FetchResponses == {"http300", "http500", "noresult", "broken"}

FetchInit == InitWith(FetchResponses)

FetchSpec == FetchInit /\ [][Next]_vars

\* ================================================================= claims
\* What the statements of one identifier's outcome would write.
StmtsOf(i) == Statements[i][resp[i]]
RowsOf(i, op) == {StmtsOf(i)[k].row : k \in {n \in 1..Len(StmtsOf(i)) : StmtsOf(i)[n].op = op}}
RouteKeysOf(i) == RowsOf(i, "insert_route")
CityRowsOf(i) == RowsOf(i, "upsert_city")
StopRowsOf(i) == RowsOf(i, "upsert_stop")

Logged(b, level, event, i) ==
    [run |-> b, level |-> level, event |-> event, city_id |-> i] \in log

\* identifiers whose outcome process_city_data handled to its end / left by
\* an exception in run b
ProcessedIn(b) == {i \in Ids : Logged(b, "INFO", "processed", i)}
RaisedIn(b) == {i \in Ids : Outcome(i).kind = "data" /\ Logged(b, "ERROR", "process_error", i)}

NoDuplicateRoute(t) == \A r \in BagToSet(t.routes) : CopiesIn(r, t.routes) = 1

\* C1 (Route dedup): at every moment the routes table, as the open connection
\* sees it and as committed, holds exactly one row for each logical key
\* (from_city_id, to_city_id, from_stop_id, to_stop_id) that a processed
\* outcome produced.  Stated as the claim has it; the code violates it.
C1_RouteDedup ==
    /\ NoDuplicateRoute(txn)
    /\ NoDuplicateRoute(db.tables)
    /\ \A b \in Blocks : afterRun[b].committed =>
          \A i \in ProcessedIn(b) : RouteKeysOf(i) \subseteq BagToSet(afterRun[b].tables.routes)

\* C2 (Idempotence): when populate_database has run and committed twice against
\* the same upstream responses, the rows after the second run are the rows
\* after the first.  Stated as the claim has it; the code violates it.
C2_Idempotence ==
    (afterRun[1].committed /\ afterRun[2].committed)
        => afterRun[2].tables = afterRun[1].tables

ReferencesExist(t) ==
    /\ \A s \in t.stops : s.city_id \in CityIds(t)
    /\ \A r \in BagToSet(t.routes) :
          /\ r.from_city_id \in CityIds(t)
          /\ r.to_city_id \in CityIds(t)
          /\ r.from_stop_id = NULL
          /\ r.to_stop_id \in StopIds(t)

\* C3 (Referential integrity): in the store committed by a completed run every
\* Route row references existing City rows and (when non-null) existing Stop
\* rows, and every Stop row an existing City row.  Stated as the claim has it;
\* the code violates it.
C3_ReferentialIntegrity ==
    \A b \in Blocks : afterRun[b].committed => ReferencesExist(afterRun[b].tables)

\* C4 (Per-outcome atomicity under write error): when process_city_data raised
\* part-way through an outcome of a run, the store committed at the end of
\* that run holds none of that outcome's rows (no Route row from its
\* identifier, no City or Stop row that only raising outcomes carry), while
\* the route rows of every outcome processed to its end are there.  Stated as
\* the claim has it; the code violates it.
C4_WriteErrorAtomicity ==
    \A b \in Blocks : afterRun[b].committed =>
        LET t == afterRun[b].tables
            clean == Ids \ RaisedIn(b)
        IN /\ \A i \in RaisedIn(b) :
                /\ \A r \in BagToSet(t.routes) : r.from_city_id # i
                /\ (CityRowsOf(i) \ UNION {CityRowsOf(j) : j \in clean}) \cap t.cities = {}
                /\ (StopRowsOf(i) \ UNION {StopRowsOf(j) : j \in clean}) \cap t.stops = {}
           /\ \A i \in ProcessedIn(b) : RouteKeysOf(i) \subseteq BagToSet(t.routes)


\* C5 (Exactly one outcome per task), under LiveSpec: a call of populate_database that reaches
\* its executor submits every identifier exactly once; no future is yielded
\* twice; every submitted task's outcome is eventually yielded to the
\* coordinator, whatever the responses of the other identifiers are; and the
\* loop ends (the commit is reached) with every outcome consumed.
C5_OneOutcomePerTask ==
    /\ [](\A i \in Ids : yielded[i] <= 1 /\ dispatched[block][i] <= 1)
    /\ [](pc = "commit" =>
            \A i \in Ids : dispatched[block][i] = 1 /\ task[i] = "done" /\ yielded[i] = 1)
    /\ (\E i \in Ids : task[i] \in {"queued", "running"}) ~> (pc = "commit")

\* a task whose fetch raised has been consumed while another is still running
C5_Witness ==
    \E i, j \in Ids :
        /\ Outcome(i).kind = "raise" /\ yielded[i] = 1
        /\ task[j] = "running" /\ Outcome(j).kind = "data"


\* C6 (Partial-failure isolation): when every identifier either fails in
\* transport or returns well-formed data, a run that dispatched its tasks is
\* not aborted, logs the failure of every failed identifier and processes
\* every other outcome to its end; the store it commits holds exactly the
\* rows of the outcomes of the identifiers that did not fail (every route key
\* once per committed run, no other key, no other city or stop) and no route
\* from a failed identifier.
C6_PartialFailureIsolation ==
    LET F == {i \in Ids : resp[i] \in TransportFailures}
        good == Ids \ F
        cities == UNION {CityRowsOf(i) : i \in good}
        stops == UNION {StopRowsOf(i) : i \in good}
        keys == UNION {RouteKeysOf(i) : i \in good}
    IN (\A i \in good : resp[i] \in ValidData) =>
        \A b \in Blocks :
            /\ afterRun[b].done =>
                  /\ ~aborted[b]
                  /\ \A i \in F : Logged(b, "ERROR", "fetch_error", i)
                  /\ \A i \in good : Logged(b, "INFO", "processed", i)
            /\ afterRun[b].committed =>
                  LET t == afterRun[b].tables
                      runs == Cardinality({a \in 1..b : afterRun[a].committed})
                  IN /\ BagToSet(t.routes) = keys
                     /\ \A r \in keys : CopiesIn(r, t.routes) = runs
                     /\ \A r \in BagToSet(t.routes) : r.from_city_id \notin F
                     /\ t.cities \subseteq cities
                     /\ CityIds(t) = {c.id : c \in cities}
                     /\ t.stops \subseteq stops
                     /\ StopIds(t) = {x.id : x \in stops}

\* a failed identifier beside two identifiers with data, committed twice
C6_Witness ==
    /\ \E i, j \in Ids : resp[i] = "http500" /\ resp[j] = "minsk"
    /\ \A i \in Ids : resp[i] \in TransportFailures \cup ValidData
    /\ \E i \in Ids : resp[i] = "riga"
    /\ afterRun[2].committed
    /\ db.tables.cities # {}

\* C7 (Write serialization): at every moment at most one outcome has
\* process_city_data in progress, and it is the outcome the coordinator took
\* from a finished future; the rows seen by the connection change only when
\* the main thread opens it or executes a statement of process_city_data (no
\* step of a fetch task changes them).
C7_WriteSerialization ==
    /\ [](/\ Cardinality({i \in Ids : wpc[i] > 0}) <= 1
          /\ \A i \in Ids : wpc[i] > 0 => (task[i] = "done" /\ pc = "process" /\ cur = i))
    /\ [][txn' # txn => (pc = "connect" \/ (pc = "process" /\ task' = task))]_vars

\* a write is half done while a fetch is running and another has finished
C7_Witness ==
    \E i, j, k \in Ids :
        /\ wpc[i] > 1
        /\ task[j] = "running"
        /\ task[k] = "done" /\ yielded[k] = 0 /\ Outcome(k).kind = "data"

\* C8 (Bounded parallelism): at every moment at most max_workers fetch tasks
\* are executing, whatever the completion order.
C8_BoundedParallelism == Cardinality(Running) <= max_workers

\* the pool is full while a submitted task waits
C8_Witness ==
    /\ Cardinality(Running) = max_workers
    /\ \E i \in Ids : task[i] = "queued"

\* C9 (Every skip is attributable): when the loop of a run has consumed every
\* outcome, the log holds, for every identifier whose task gave no data, a
\* record of that run naming the identifier.  Stated as the claim has it; the
\* code violates it.
C9_EverySkipLogged ==
    pc = "commit" =>
        \A i \in Ids : Outcome(i).kind # "data" =>
            \E rec \in log : rec.run = block /\ rec.city_id = i

\* C10 (Fatal errors abort before dispatch): a block in which create_database
\* or the opening of the store failed (its critical record is in the log) is
\* aborted: no fetch task was or will be submitted in it, its
\* populate_database never reaches the commit, and control has left the block.
C10_FatalAbortsBeforeDispatch ==
    \A b \in Blocks :
        (aborted[b] \/ Logged(b, "CRITICAL", "critical", 0)) =>
            /\ aborted[b]
            /\ \A i \in Ids : dispatched[b][i] = 0
            /\ ~afterRun[b].done
            /\ b = 1 => block = 2
            /\ b = 2 => pc = "done"

\* the first block was aborted and the second one dispatched its tasks
C10_Witness ==
    /\ aborted[1]
    /\ Logged(1, "CRITICAL", "critical", 0)
    /\ \A i \in Ids : dispatched[2][i] = 1

\* a read-only pass of this execution has run: the first block's export
ReadStarted == Logged(1, "INFO", "exported", 0)

\* C11 (Reads follow writes): once export_route_summary has run in the
\* execution, the store is written no more: the committed tables stay those
\* the export read, and an open connection holds no uncommitted write.
\* Stated as the claim has it; the second __main__ block violates it.
C11_ReadsFollowWrites ==
    ReadStarted =>
        /\ db.tables = afterRun[1].tables
        /\ conn = "open" => txn = db.tables

\* C15 (Single pass per execution): over the whole execution every
\* identifier is submitted to the pool at most once and the exporter runs at
\* most once.  Stated as the claim has it; the second __main__ block
\* violates it.
C15_SinglePass ==
    /\ \A i \in Ids : dispatched[1][i] + dispatched[2][i] <= 1
    /\ ~(Logged(1, "INFO", "exported", 0) /\ Logged(2, "INFO", "exported", 0))

\* the export of block b is the one route_summary.json holds
LastExport(b) ==
    /\ Logged(b, "INFO", "exported", 0)
    /\ b = 1 => ~Logged(2, "INFO", "exported", 0)

\* C12 (Export completeness): the list an export wrote has exactly one
\* record for every Route row the store held when populate_database
\* returned.  Stated as the claim has it; the code violates it.
C12_ExportCompleteness ==
    \A b \in Blocks :
        LastExport(b) => Len(route_summary) = BagCardinality(afterRun[b].tables.routes)

\* the four names of an exported record, as ranks of the collation
RecordKey(rec) ==
    <<Rank(rec.from_city), Rank(rec.to_city), Rank(rec.from_stop), Rank(rec.to_stop)>>

\* C13 (Export ordering): the exported list is sorted lexicographically by
\* (from_city, to_city, from_stop, to_stop), and the record of every route
\* with a null from_stop_id (every route the script writes) has from_stop
\* "Any".
C13_ExportOrdering ==
    /\ \A k \in 1..(Len(route_summary) - 1) :
          ~Precedes(RecordKey(route_summary[k + 1]), RecordKey(route_summary[k]))
    /\ \A k \in 1..Len(route_summary) : route_summary[k].from_stop = "Any"

\* an export of routes from two origin cities to two destination cities,
\* where the order of the destinations is not the order of the origins
C13_Witness ==
    \E k, m \in 1..Len(route_summary) :
        /\ k < m
        /\ Rank(route_summary[k].from_city) < Rank(route_summary[m].from_city)
        /\ Rank(route_summary[m].to_city) < Rank(route_summary[k].to_city)

\* table new is table old after a last-write-wins write of row: row is its
\* only row with that id and the rows of the other ids are untouched
LastWriteWins(old, new, row) ==
    /\ row \in new
    /\ \A x \in new : x.id = row.id => x = row
    /\ {x \in new : x.id # row.id} = {x \in old : x.id # row.id}

UniqueIds(table) == \A x, y \in table : x.id = y.id => x = y

\* C14 (Last-write-wins upsert): the cities and stops tables never hold two
\* rows with one id; every statement that succeeds in upserting a city or a
\* stop leaves exactly the record it carries under that id (city_id of a
\* stop included) and touches no other row; and no other step of a run
\* changes these tables.  So each row is the most recently processed record
\* of its id.
C14_LastWriteWins ==
    /\ [](UniqueIds(txn.cities) /\ UniqueIds(txn.stops)
           /\ UniqueIds(db.tables.cities) /\ UniqueIds(db.tables.stops))
    /\ [][\A i \in Ids :
            (Writing(i) /\ wpc'[i] # wpc[i] /\ Executed(i).ok) =>
                CASE Statement(i).op = "upsert_city" ->
                        /\ LastWriteWins(txn.cities, txn'.cities, Statement(i).row)
                        /\ txn'.stops = txn.stops
                  [] Statement(i).op = "upsert_stop" ->
                        /\ LastWriteWins(txn.stops, txn'.stops, Statement(i).row)
                        /\ txn'.cities = txn.cities
                  [] OTHER ->
                        /\ txn'.cities = txn.cities
                        /\ txn'.stops = txn.stops]_vars
    /\ [][(pc # "process" /\ pc # "connect") =>
            (txn'.cities = txn.cities /\ txn'.stops = txn.stops)]_vars

\* the Riga payload was processed to its end and the cities table holds the
\* later record of id 9, the stops table the later record of stop 100 under
\* another city
C14_Witness ==
    /\ \E i \in ProcessedIn(block) : resp[i] = "riga"
    /\ CityRow(Ryga) \in txn.cities
    /\ StopRow(Minsk, Centralny) \in txn.stops

\* C16 (Schema initializer idempotence): every call of create_database that
\* returns, the first on the empty store and the later ones on a store that
\* has the schema and rows, leaves exactly the three tables and the three
\* indexes and the City, Stop and Route rows that were there.
C16_InitializerIdempotent ==
    [][(pc = "create" /\ pc' = "connect") =>
          (db'.schema = SchemaObjects /\ db'.tables = db.tables)]_vars

\* create_database has returned for the second time, on a store that held
\* the schema and rows of all three tables
C16_Witness ==
    /\ block = 2
    /\ pc = "connect"
    /\ ~aborted[1]
    /\ db.schema = SchemaObjects
    /\ db.tables.cities # {}
    /\ db.tables.stops # {}
    /\ db.tables.routes # EmptyBag

\* the transport succeeded with a 2xx status and the decoded body has result
\* "success" and a non-empty data payload
RecognizedSuccess(r) ==
    /\ r.transport = "ok"
    /\ r.status >= 200 /\ r.status <= 299
    /\ "result" \in DOMAIN r.body /\ r.body.result = "success"
    /\ "data" \in DOMAIN r.body /\ r.body.data # <<>>

\* C17 (Fetch classification): a finished fetch task holds a data outcome,
\* carrying its identifier and the payload, exactly when the response is a
\* recognized success, and process_city_data runs only for identifiers whose
\* response is one.  Stated as the claim has it; the code violates it.
C17_FetchClassification ==
    \A i \in Ids :
        /\ task[i] = "done" =>
              /\ Outcome(i).kind = "data" <=> RecognizedSuccess(Upstream(resp[i]))
              /\ Outcome(i).kind = "data" =>
                    (Outcome(i).city_id = i /\ Outcome(i).data = Upstream(resp[i]).body.data)
        /\ wpc[i] > 0 => RecognizedSuccess(Upstream(resp[i]))

\* in the statements of a data outcome, every insert of a route comes after
\* the upsert of its destination city and of its destination stop, and no
\* stop of a city is upserted after a route to that city
CityStopsRoutesOrder(stmts) ==
    \A k \in 1..Len(stmts) :
        stmts[k].op = "insert_route" =>
            /\ \E c \in 1..(k - 1) :
                  /\ stmts[c].op = "upsert_city"
                  /\ stmts[c].row.id = stmts[k].row.to_city_id
                  /\ \E n \in (c + 1)..(k - 1) :
                        /\ stmts[n].op = "upsert_stop"
                        /\ stmts[n].row.id = stmts[k].row.to_stop_id
            /\ \A n \in (k + 1)..Len(stmts) :
                  stmts[n].op = "upsert_stop" => stmts[n].row.city_id # stmts[k].row.to_city_id

\* C18 (Write order within an outcome): process_city_data writes each record
\* as city, then stops, then routes, and whenever it is about to insert a
\* Route row successfully, the City rows of from_city_id and to_city_id and the
\* Stop row of to_stop_id are in the store as its connection sees it.
\* Stated as the claim has it; the code violates it.
C18_WriteOrder ==
    \A i \in Ids :
        /\ CityStopsRoutesOrder(StmtsOf(i))
        /\ (Writing(i) /\ Statement(i).op = "insert_route" /\ Executed(i).ok) =>
              /\ Statement(i).row.from_city_id \in CityIds(txn)
              /\ Statement(i).row.to_city_id \in CityIds(txn)
              /\ Statement(i).row.to_stop_id \in StopIds(txn)

\* the stop rows among the statements of each identifier's outcome, for each
\* response
ListedStops ==
    [i \in Ids |-> [n \in ResponseNames |->
        {Statements[i][n][k].row :
            k \in {m \in 1..Len(Statements[i][n]) : Statements[i][n][m].op = "upsert_stop"}}]]

\* the upstream lists stop id under two different destination cities, in
\* records that process_city_data writes
Relisted(id) ==
    \E i, j \in Ids : \E a \in ListedStops[i][resp[i]], b \in ListedStops[j][resp[j]] :
        a.id = id /\ b.id = id /\ a.city_id # b.city_id

\* C19 (Route destination consistency), as the claim has it: in the store,
\* as the connection sees it and as committed, every Route row's to_stop_id
\* names a Stop row whose city_id is the route's to_city_id, also when a stop
\* id is listed under different destination cities.  The code violates it.
C19_RouteDestinationAny ==
    \A t \in {txn, db.tables} : \A r \in BagToSet(t.routes) :
        \E s \in t.stops : s.id = r.to_stop_id /\ s.city_id = r.to_city_id

\* C19 amended: every Route row's to_stop_id names a Stop row, and that
\* row's city_id is the route's to_city_id unless the processed records list
\* the stop id under different destination cities.
C19_RouteDestination ==
    \A t \in {txn, db.tables} : \A r \in BagToSet(t.routes) :
        \E s \in t.stops :
            /\ s.id = r.to_stop_id
            /\ s.city_id = r.to_city_id \/ Relisted(r.to_stop_id)

\* the second run has committed routes from two origins to a stop that is
\* listed under one city only, next to a payload that renames that city
C19_Witness ==
    /\ afterRun[2].committed
    /\ ~Relisted(100)
    /\ \E r, q \in BagToSet(db.tables.routes) :
          r.to_stop_id = 100 /\ q.to_stop_id = 100 /\ r.from_city_id # q.from_city_id
    /\ \E i \in ProcessedIn(2) : resp[i] = "riga"
    /\ \E i \in Ids : resp[i] = "broken"

\* the committed rows when populate_database of block b was entered
BeforeRun(b) ==
    IF b = 2 /\ afterRun[1].done THEN afterRun[1].tables ELSE EmptyTables

\* C20 (Single commit per run): the committed rows change only in the step
\* that commits, taken when every task is done, every outcome has been
\* yielded and processed and the pool has shut down, and that step commits
\* all the writes the connection holds and closes it; while the connection is
\* open the committed rows are those from before the run; and when the
\* commit fails the connection is closed and the committed rows are still
\* those from before the run.
C20_SingleCommit ==
    /\ [][db'.tables # db.tables =>
            /\ pc = "commit"
            /\ \A i \in Ids : task[i] = "done" /\ yielded[i] = 1 /\ wpc[i] = 0
            /\ threads = 0
            /\ db'.tables = txn
            /\ conn' = "closed"]_vars
    /\ [](conn = "open" => db.tables = BeforeRun(block))
    /\ [](\A b \in Blocks :
            (afterRun[b].done /\ ~afterRun[b].committed) =>
                /\ afterRun[b].tables = BeforeRun(b)
                /\ b = block => (conn = "closed" /\ db.tables = BeforeRun(b)))

\* the commit of the first run failed with rows written and nothing was
\* persisted; the second run committed its rows
C20_Witness ==
    /\ afterRun[1].done /\ ~afterRun[1].committed
    /\ afterRun[1].tables = EmptyTables
    /\ afterRun[2].done /\ afterRun[2].committed
    /\ db.tables.routes # EmptyBag
    /\ BagCardinality(db.tables.routes) >= 2

====
